---- MODULE Spec2Model ----
(***************************************************************************)
(* Model of src/main.py: a Streamlit script that loads three pickled       *)
(* classifiers, lets the user pick and edit a customer, encodes the        *)
(* customer, averages the three models' churn probabilities, and asks a    *)
(* remote completion API for an explanation and then for an email.         *)
(*                                                                         *)
(* Streamlit executes the script top to bottom once when the page opens    *)
(* and once more after every user interaction.  One execution is modelled  *)
(* as a sequence of steps (pc); an unhandled exception ends the execution  *)
(* (pc = "halted") and leaves what was rendered before it on the page.     *)
(*                                                                         *)
(* Probabilities are exact rationals: a model's probability is an integer  *)
(* number of 1/Scale units and the mean is the pair (sum, count).          *)
(***************************************************************************)
EXTENDS Integers, Sequences, FiniteSets, TLC

VARIABLES
    files,          \* the three artifact files on disk, by load order
    dataset,        \* the rows of churn.csv
    session,        \* widget state Streamlit keeps between executions
    runs,           \* executions of the script started so far
    loads,          \* load_model calls per artifact in the process's life
    pc,             \* position of the current execution
    registry,       \* xgboost_model, random_forest_model, knn_model
    loadedThisRun,  \* load_model calls per artifact in this execution
    rendered,       \* elements this execution has put on the page
    selected_customer, \* the row of line 179, once it has run
    inputs,         \* the ten widget values of lines 185-196
    input_dict,     \* the dictionary prepare_input returned
    probabilities,  \* the per-model probability map of make_predictions
    avg_probability,\* the value make_predictions returned
    explanation,    \* the text explain_prediction returned
    email,          \* the text generate_email returned
    prompts,        \* the prompts sent to the remote API, in order
    exc,            \* the exception that ended the execution, if any
    haltedAt,       \* the statement that raised it
    log             \* the pipeline stages this execution has completed or tried

vars == <<files, dataset, session, runs, loads, pc, registry, loadedThisRun,
          rendered, selected_customer, inputs, input_dict, probabilities,
          avg_probability, explanation, email, prompts, exc, haltedAt, log>>

(***************************************************************************)
(* Bounds of the model.                                                    *)
(***************************************************************************)
\* executions of the script in one process (page open plus interactions)
MaxRuns == 3
\* a probability p is the integer p * Scale
Scale == 10

\* Python's None, and a present value, as sequences of length 0 and 1
None == <<>>
Some(x) == <<x>>

(***************************************************************************)
(* load_model (lines 16-30)                                                *)
(***************************************************************************)
\* the load order of lines 28-30 and the key order of lines 86-88
ModelNames == <<"XGBoost", "Random Forest", "K-Nearest Neighbors">>
ModelFiles == <<"xgb_model.pkl", "rf_model.pkl", "knn_model.pkl">>
ModelIds == 1..3

\* what a path can hold: a good pickle, nothing, a pickle cut short (pickle
\* raises UnpicklingError), a file of zero bytes (pickle raises EOFError)
FileKinds == {"valid", "missing", "truncated", "empty"}

\* open(filename, "rb") and pickle.load(file): the value or the exception
PickleLoad(kind) ==
    CASE kind = "valid"     -> [raises |-> "none", value |-> "model"]
      [] kind = "missing"   -> [raises |-> "FileNotFoundError", value |-> "None"]
      [] kind = "truncated" -> [raises |-> "UnpicklingError", value |-> "None"]
      [] kind = "empty"     -> [raises |-> "EOFError", value |-> "None"]

\* load_model without its first except clause: a missing file escapes
load_model_NoNotFoundHandler(kind, filename) ==
    LET r == PickleLoad(kind) IN
    CASE r.raises = "none" ->
           [value |-> r.value, shown |-> {}, escapes |-> "none"]
      [] r.raises = "UnpicklingError" ->
           [value |-> "None", shown |-> {"error: corrupted " \o filename},
            escapes |-> "none"]
      [] OTHER ->
           [value |-> "unbound", shown |-> {}, escapes |-> r.raises]

\* load_model: the value bound to the global, the st.error shown, and the
\* exception that leaves the function (neither except clause matches it)
load_model(kind, filename) ==
    LET r == PickleLoad(kind) IN
    CASE r.raises = "none" ->
           [value |-> r.value, shown |-> {}, escapes |-> "none"]
      [] r.raises = "FileNotFoundError" ->
           [value |-> "None", shown |-> {"error: not found " \o filename},
            escapes |-> "none"]
      [] r.raises = "UnpicklingError" ->
           [value |-> "None", shown |-> {"error: corrupted " \o filename},
            escapes |-> "none"]
      [] OTHER ->
           [value |-> "unbound", shown |-> {}, escapes |-> r.raises]

(***************************************************************************)
(* The dataset and the input widgets (lines 168-196)                       *)
(***************************************************************************)
\* a row of churn.csv, by the columns the script reads
Row(id, name, score, geo, gender, age, tenure, bal, prods, card, act, sal) ==
    [CustomerId |-> id, Surname |-> name, CreditScore |-> score,
     Geography |-> geo, Gender |-> gender, Age |-> age, Tenure |-> tenure,
     Balance |-> bal, NumOfProducts |-> prods, HasCrCard |-> card,
     IsActiveMember |-> act, EstimatedSalary |-> sal]

\* a churn.csv: two ordinary rows, a row with an unlisted Geography, a row
\* with an unlisted Gender, a row whose CreditScore and Geography are both
\* outside what the widgets accept
Dataset ==
    << Row(1, "Hill", 650, "Spain", "Female", 40, 3, 50000, 2, 1, 1, 60000),
       Row(2, "Onio", 700, "Germany", "Male", 35, 5, 0, 1, 0, 0, 40000),
       Row(3, "Rossi", 600, "Italy", "Female", 50, 8, 1000, 3, 1, 0, 30000),
       Row(4, "Kay", 620, "France", "Other", 28, 1, 200, 1, 0, 1, 20000),
       Row(5, "Boni", 900, "Italy", "Male", 61, 9, 700, 1, 1, 1, 10000) >>

LocationOptions == <<"Spain", "France", "Germany">>
GenderOptions == <<"Male", "Female">>

Range(s) == {s[i] : i \in 1..Len(s)}

\* list.index(x): the first position holding x, 0-based; 0 - 1 stands for
\* the ValueError Python raises when x is not in the list
ListIndex(s, x) ==
    IF x \in Range(s)
    THEN (CHOOSE i \in 1..Len(s) : s[i] = x /\ \A j \in 1..(i - 1) : s[j] # x) - 1
    ELSE 0 - 1

\* a selectbox that falls back to its first option for an unlisted value
LocationIndex_Fallback(row) ==
    IF row.Geography \in Range(LocationOptions)
    THEN ListIndex(LocationOptions, row.Geography)
    ELSE 0

\* the index= argument of the Location selectbox, line 186
LocationIndex(row) == ListIndex(LocationOptions, row.Geography)

\* the index= argument of the Gender radio, line 187
GenderIndex(row) == IF row.Gender = "Male" THEN 0 ELSE 1

CreditScoreMin == 300
CreditScoreMax == 850
AgeMin == 18
AgeMax == 100
TenureMin == 0
TenureMax == 50
ProductsMin == 1
ProductsMax == 10

\* st.number_input raises when its seed value lies outside [min, max]
NumberInputOk(min, max, value) == min <= value /\ value <= max
\* the two number inputs without max_value (lines 192, 196)
NumberInputOkMin(min, value) == min <= value

\* the widgets in the order the script creates them
WidgetOrder == << "Credit Score", "Location", "Gender", "Age", "Tenure (years)",
                  "Balance", "Number of Products", "Has Credit Card",
                  "Is Active Member", "Estimated Salary" >>

\* whether the statement creating widget w completes for this row
WidgetOk(w, row) ==
    CASE w = "Credit Score" ->
           NumberInputOk(CreditScoreMin, CreditScoreMax, row.CreditScore)
      [] w = "Location" -> LocationIndex(row) >= 0
      [] w = "Age" -> NumberInputOk(AgeMin, AgeMax, row.Age)
      [] w = "Tenure (years)" -> NumberInputOk(TenureMin, TenureMax, row.Tenure)
      [] w = "Balance" -> NumberInputOkMin(0, row.Balance)
      [] w = "Number of Products" ->
           NumberInputOk(ProductsMin, ProductsMax, row.NumOfProducts)
      [] w = "Estimated Salary" -> NumberInputOkMin(0, row.EstimatedSalary)
      [] OTHER -> TRUE

\* position in WidgetOrder of the first widget whose creation raises, or 0
FirstFailingWidget(row) ==
    IF \A i \in 1..Len(WidgetOrder) : WidgetOk(WidgetOrder[i], row)
    THEN 0
    ELSE CHOOSE i \in 1..Len(WidgetOrder) :
             /\ ~WidgetOk(WidgetOrder[i], row)
             /\ \A j \in 1..(i - 1) : WidgetOk(WidgetOrder[j], row)

\* the exception the failing widget raises
WidgetException(w) == IF w = "Location" THEN "ValueError" ELSE "StreamlitAPIException"

\* the value a categorical widget returns: the user's choice when the
\* session holds one, else the option at the seed index
WidgetChoice(options, seedIndex, chosen) ==
    IF chosen # None THEN chosen[1] ELSE options[seedIndex + 1]

\* the ten values of lines 185-196 for a row whose widgets are all created
WidgetValues(row, sess) ==
    [credit_score |-> row.CreditScore,
     location |-> WidgetChoice(LocationOptions, LocationIndex(row), sess.location),
     gender |-> WidgetChoice(GenderOptions, GenderIndex(row), sess.gender),
     age |-> row.Age,
     tenure |-> row.Tenure,
     balance |-> row.Balance,
     num_products |-> row.NumOfProducts,
     has_credit_card |-> (row.HasCrCard # 0),
     is_active_member |-> (row.IsActiveMember # 0),
     estimated_salary |-> row.EstimatedSalary]

(***************************************************************************)
(* prepare_input (lines 60-80)                                             *)
(***************************************************************************)
\* int(x) of a Python bool
BoolToInt(b) == IF b THEN 1 ELSE 0

\* prepare_input with the Germany indicator testing for France
prepare_input_CopiedTest(in) ==
    [CreditScore |-> in.credit_score,
     Age |-> in.age,
     Tenure |-> in.tenure,
     Balance |-> in.balance,
     NumOfProducts |-> in.num_products,
     HasCrCard |-> BoolToInt(in.has_credit_card),
     IsActiveMember |-> BoolToInt(in.is_active_member),
     EstimatedSalary |-> in.estimated_salary,
     Geography_France |-> IF in.location = "France" THEN 1 ELSE 0,
     Geography_Germany |-> IF in.location = "France" THEN 1 ELSE 0,
     Geography_Spain |-> IF in.location = "Spain" THEN 1 ELSE 0,
     Gender_Male |-> IF in.gender = "Male" THEN 1 ELSE 0,
     Gender_Female |-> IF in.gender = "Female" THEN 1 ELSE 0]

\* prepare_input with the last indicator of each group as the default
prepare_input_DefaultCategory(in) ==
    [CreditScore |-> in.credit_score,
     Age |-> in.age,
     Tenure |-> in.tenure,
     Balance |-> in.balance,
     NumOfProducts |-> in.num_products,
     HasCrCard |-> BoolToInt(in.has_credit_card),
     IsActiveMember |-> BoolToInt(in.is_active_member),
     EstimatedSalary |-> in.estimated_salary,
     Geography_France |-> IF in.location = "France" THEN 1 ELSE 0,
     Geography_Germany |-> IF in.location = "Germany" THEN 1 ELSE 0,
     Geography_Spain |-> IF in.location \notin {"France", "Germany"} THEN 1 ELSE 0,
     Gender_Male |-> IF in.gender = "Male" THEN 1 ELSE 0,
     Gender_Female |-> IF in.gender # "Male" THEN 1 ELSE 0]

\* input_dict of prepare_input
prepare_input(in) ==
    [CreditScore |-> in.credit_score,
     Age |-> in.age,
     Tenure |-> in.tenure,
     Balance |-> in.balance,
     NumOfProducts |-> in.num_products,
     HasCrCard |-> BoolToInt(in.has_credit_card),
     IsActiveMember |-> BoolToInt(in.is_active_member),
     EstimatedSalary |-> in.estimated_salary,
     Geography_France |-> IF in.location = "France" THEN 1 ELSE 0,
     Geography_Germany |-> IF in.location = "Germany" THEN 1 ELSE 0,
     Geography_Spain |-> IF in.location = "Spain" THEN 1 ELSE 0,
     Gender_Male |-> IF in.gender = "Male" THEN 1 ELSE 0,
     Gender_Female |-> IF in.gender = "Female" THEN 1 ELSE 0]

(***************************************************************************)
(* make_predictions (lines 83-109)                                         *)
(***************************************************************************)
\* the probabilities a loaded model may return, in 1/Scale units
Probs == {0, 2, 5, 8, Scale}

RECURSIVE SumSeq(_)
SumSeq(s) == IF s = <<>> THEN 0 ELSE s[1] + SumSeq(Tail(s))

\* a mean that leaves the last value out
Mean_DropsLast(s) == [num |-> SumSeq(SubSeq(s, 1, Len(s) - 1)), den |-> Len(s) - 1]

\* np.mean of a list: the rational num / den
Mean(s) == [num |-> SumSeq(s), den |-> Len(s)]

\* the position of the first global that is None in the order of the dict
\* literal of lines 85-89, or 0 when all three hold a model
FirstMissing(reg) ==
    IF \A i \in ModelIds : reg[i] = "model"
    THEN 0
    ELSE CHOOSE i \in ModelIds :
             reg[i] # "model" /\ \A j \in 1..(i - 1) : reg[j] = "model"

\* what lines 93-107 put on the page
PredictionElements ==
    {"### Model Probabilities", "XGBoost: p", "Random Forest: p",
     "K-Nearest Neighbors: p", "Average Probability: p", "gauge chart",
     "The customer has a p probability of churning.", "bar chart"}

\* make_predictions that leaves out the models that are None
make_predictions_SkipsMissing(reg, p) ==
    LET have == {i \in ModelIds : reg[i] = "model"}
        order == IF 1 \in have THEN <<1>> ELSE <<>>
        order2 == IF 2 \in have THEN Append(order, 2) ELSE order
        order3 == IF 3 \in have THEN Append(order2, 3) ELSE order2
    IN  IF have = {}
        THEN [raises |-> "AttributeError", failedModel |-> ModelNames[1],
              probabilities |-> [n \in {} |-> 0], avg |-> None, shown |-> {}]
        ELSE [raises |-> "none", failedModel |-> "",
              probabilities |-> [n \in {ModelNames[i] : i \in have} |->
                                   p[CHOOSE i \in have : ModelNames[i] = n]],
              avg |-> Some(Mean([k \in 1..Len(order3) |-> p[order3[k]]])),
              shown |-> PredictionElements]

\* make_predictions that writes the heading before it invokes the models
make_predictions_HeadingFirst(reg, p) ==
    LET miss == FirstMissing(reg) IN
    IF miss # 0
    THEN [raises |-> "AttributeError", failedModel |-> ModelNames[miss],
          probabilities |-> [n \in {} |-> 0], avg |-> None,
          shown |-> {"### Model Probabilities"}]
    ELSE [raises |-> "none", failedModel |-> "",
          probabilities |-> [n \in Range(ModelNames) |->
                               p[CHOOSE i \in ModelIds : ModelNames[i] = n]],
          avg |-> Some(Mean([i \in ModelIds |-> p[i]])),
          shown |-> PredictionElements]

\* make_predictions with the value in p[i] returned by model i: None has no
\* predict_proba, so the first None in key order raises AttributeError
\* before the dictionary exists; otherwise the map, its mean, the rendering
make_predictions(reg, p) ==
    LET miss == FirstMissing(reg) IN
    IF miss # 0
    THEN [raises |-> "AttributeError", failedModel |-> ModelNames[miss],
          probabilities |-> [n \in {} |-> 0], avg |-> None, shown |-> {}]
    ELSE [raises |-> "none", failedModel |-> "",
          probabilities |-> [n \in Range(ModelNames) |->
                               p[CHOOSE i \in ModelIds : ModelNames[i] = n]],
          avg |-> Some(Mean([i \in ModelIds |-> p[i]])),
          shown |-> PredictionElements]

(***************************************************************************)
(* explain_prediction and generate_email (lines 112-162)                   *)
(***************************************************************************)
\* texts the completion endpoint may answer with
Explanations == {"at risk", "not at risk"}
Emails == {"offer A", "offer B"}

\* the variable parts of the prompt of lines 113-139
ExplainPrompt(probability, dict, surname) ==
    [call |-> "explain_prediction", surname |-> surname,
     probability |-> Some(probability), input_dict |-> dict,
     explanation |-> None]

\* an email prompt built without the explanation text
EmailPrompt_NoExplanation(probability, dict, text, surname) ==
    [call |-> "generate_email", surname |-> surname, probability |-> None,
     input_dict |-> dict, explanation |-> Some("")]

\* the variable parts of the prompt of lines 149-155 (probability is a
\* parameter of generate_email that the prompt does not use)
EmailPrompt(probability, dict, text, surname) ==
    [call |-> "generate_email", surname |-> surname, probability |-> None,
     input_dict |-> dict, explanation |-> Some(text)]

\* what lines 202-204 and 207-209 put on the page
ExplanationElements == {"--- 1", "Explanation of Prediction", "explanation text"}
EmailElements == {"--- 2", "Personalized Email", "email text"}

(***************************************************************************)
(* One execution of the script                                             *)
(***************************************************************************)
NoProbabilities == [n \in {} |-> 0]

\* the state every execution starts from: module globals unbound, an empty page
FreshRun ==
    /\ pc' = "load"
    /\ registry' = [i \in ModelIds |-> "unbound"]
    /\ loadedThisRun' = [i \in ModelIds |-> 0]
    /\ rendered' = {}
    /\ selected_customer' = None
    /\ inputs' = None
    /\ input_dict' = None
    /\ probabilities' = NoProbabilities
    /\ avg_probability' = None
    /\ explanation' = None
    /\ email' = None
    /\ prompts' = <<>>
    /\ exc' = "none"
    /\ haltedAt' = ""
    /\ log' = <<>>

Init ==
    /\ files \in [ModelIds -> FileKinds]
    /\ dataset \in {<<>>, Dataset}
    /\ session = [customer |-> 1, location |-> None, gender |-> None]
    /\ runs = 1
    /\ loads = [i \in ModelIds |-> 0]
    /\ pc = "load"
    /\ registry = [i \in ModelIds |-> "unbound"]
    /\ loadedThisRun = [i \in ModelIds |-> 0]
    /\ rendered = {}
    /\ selected_customer = None
    /\ inputs = None
    /\ input_dict = None
    /\ probabilities = NoProbabilities
    /\ avg_probability = None
    /\ explanation = None
    /\ email = None
    /\ prompts = <<>>
    /\ exc = "none"
    /\ haltedAt = ""
    /\ log = <<>>

\* the statement an exception leaves through ends the execution
Halt(exception, where) ==
    /\ pc' = "halted"
    /\ exc' = exception
    /\ haltedAt' = where

\* lines 28-30, one load_model call per step, in order
LoadNext ==
    /\ pc = "load"
    /\ LET i == CHOOSE k \in ModelIds :
                  loadedThisRun[k] = 0 /\ \A j \in 1..(k - 1) : loadedThisRun[j] = 1
           r == load_model(files[i], ModelFiles[i])
       IN  /\ loads' = [loads EXCEPT ![i] = @ + 1]
           /\ loadedThisRun' = [loadedThisRun EXCEPT ![i] = @ + 1]
           /\ registry' = [registry EXCEPT ![i] = r.value]
           /\ rendered' = rendered \cup r.shown
           /\ IF r.escapes # "none"
              THEN Halt(r.escapes, ModelFiles[i])
              ELSE /\ pc' = IF i = 3 THEN "select" ELSE "load"
                   /\ UNCHANGED <<exc, haltedAt>>
    /\ UNCHANGED <<files, dataset, session, runs, selected_customer, inputs, input_dict,
                   probabilities, avg_probability, explanation, email, prompts,
                   log>>

\* df.loc[df["CustomerId"] == id].iloc[0]: the first row with that id
RowById(id) ==
    dataset[CHOOSE i \in 1..Len(dataset) :
                /\ dataset[i].CustomerId = id
                /\ \A j \in 1..(i - 1) : dataset[j].CustomerId # id]

\* lines 165-179: the title, the dataset, the customer selectbox; with no
\* customers the selectbox returns None and the script ends at line 176
SelectCustomer ==
    /\ pc = "select"
    /\ rendered' = rendered \cup {"Customer Churn Prediction", "Select a customer"}
    /\ IF dataset = <<>>
       THEN /\ pc' = "done"
            /\ UNCHANGED selected_customer
       ELSE /\ selected_customer' = Some(RowById(dataset[session.customer].CustomerId))
            /\ pc' = "widgets"
    /\ UNCHANGED <<files, dataset, session, runs, loads, registry, loadedThisRun,
                   inputs, input_dict, probabilities, avg_probability,
                   explanation, email, prompts, exc, haltedAt, log>>

\* lines 185-196: the ten widgets in order; the first whose creation raises
\* ends the execution with the earlier widgets on the page
CreateWidgets ==
    /\ pc = "widgets"
    /\ LET row == selected_customer[1]
           f == FirstFailingWidget(row)
       IN  IF f = 0
           THEN /\ inputs' = Some(WidgetValues(row, session))
                /\ rendered' = rendered \cup Range(WidgetOrder)
                /\ pc' = "encode"
                /\ UNCHANGED <<exc, haltedAt>>
           ELSE /\ rendered' = rendered \cup {WidgetOrder[i] : i \in 1..(f - 1)}
                /\ Halt(WidgetException(WidgetOrder[f]), WidgetOrder[f])
                /\ UNCHANGED inputs
    /\ UNCHANGED <<files, dataset, session, runs, loads, registry, loadedThisRun,
                   selected_customer, input_dict, probabilities, avg_probability,
                   explanation, email, prompts, log>>

\* line 198
PrepareInputStep ==
    /\ pc = "encode"
    /\ input_dict' = Some(prepare_input(inputs[1]))
    /\ log' = Append(log, "encode")
    /\ pc' = "predict"
    /\ UNCHANGED <<files, dataset, session, runs, loads, registry, loadedThisRun,
                   rendered, selected_customer, inputs, probabilities, avg_probability,
                   explanation, email, prompts, exc, haltedAt>>

\* line 199
MakePredictionsStep ==
    /\ pc = "predict"
    /\ log' = Append(log, "aggregate")
    /\ \E p \in [ModelIds -> Probs] :
         LET r == make_predictions(registry, p) IN
         /\ probabilities' = r.probabilities
         /\ avg_probability' = r.avg
         /\ rendered' = rendered \cup r.shown
         /\ IF r.raises # "none"
            THEN Halt(r.raises, r.failedModel)
            ELSE /\ pc' = "explain"
                 /\ UNCHANGED <<exc, haltedAt>>
    /\ UNCHANGED <<files, dataset, session, runs, loads, registry, loadedThisRun,
                   selected_customer, inputs, input_dict, explanation, email, prompts>>

\* lines 200-204: one request; its text is rendered, or its error ends the
\* execution
ExplainStep ==
    /\ pc = "explain"
    /\ log' = Append(log, "explain")
    /\ prompts' = Append(prompts, ExplainPrompt(avg_probability[1], input_dict[1],
                                                selected_customer[1].Surname))
    /\ \/ \E t \in Explanations :
            /\ explanation' = Some(t)
            /\ rendered' = rendered \cup ExplanationElements
            /\ pc' = "email"
            /\ UNCHANGED <<exc, haltedAt>>
       \/ /\ Halt("APIError", "explain_prediction")
          /\ UNCHANGED <<explanation, rendered>>
    /\ UNCHANGED <<files, dataset, session, runs, loads, registry, loadedThisRun,
                   selected_customer, inputs, input_dict, probabilities, avg_probability,
                   email>>

\* lines 206-209: one request carrying the explanation; its text is rendered,
\* or its error ends the execution
EmailStep ==
    /\ pc = "email"
    /\ log' = Append(log, "email")
    /\ prompts' = Append(prompts, EmailPrompt(avg_probability[1], input_dict[1],
                                              explanation[1], selected_customer[1].Surname))
    /\ \/ \E t \in Emails :
            /\ email' = Some(t)
            /\ rendered' = rendered \cup EmailElements
            /\ pc' = "done"
            /\ UNCHANGED <<exc, haltedAt>>
       \/ /\ Halt("APIError", "generate_email")
          /\ UNCHANGED <<email, rendered>>
    /\ UNCHANGED <<files, dataset, session, runs, loads, registry, loadedThisRun,
                   selected_customer, inputs, input_dict, probabilities, avg_probability,
                   explanation>>

(***************************************************************************)
(* User interactions: each one makes Streamlit execute the script again    *)
(***************************************************************************)
Finished == pc \in {"done", "halted"}

\* a new execution that reuses the models an earlier one loaded, as a
\* process-wide cache would, and loads only when there are none
StartRun_KeepsModels(sess) ==
    /\ Finished
    /\ runs < MaxRuns
    /\ runs' = runs + 1
    /\ session' = sess
    /\ IF \A i \in ModelIds : registry[i] # "unbound"
       THEN /\ pc' = "select"
            /\ UNCHANGED <<registry, loadedThisRun>>
       ELSE /\ pc' = "load"
            /\ registry' = [i \in ModelIds |-> "unbound"]
            /\ loadedThisRun' = [i \in ModelIds |-> 0]
    /\ rendered' = {}
    /\ selected_customer' = None
    /\ inputs' = None
    /\ input_dict' = None
    /\ probabilities' = NoProbabilities
    /\ avg_probability' = None
    /\ explanation' = None
    /\ email' = None
    /\ prompts' = <<>>
    /\ exc' = "none"
    /\ haltedAt' = ""
    /\ log' = <<>>
    /\ UNCHANGED <<files, dataset, loads>>

\* a new execution with the widget state sess
StartRun(sess) ==
    /\ Finished
    /\ runs < MaxRuns
    /\ runs' = runs + 1
    /\ session' = sess
    /\ FreshRun
    /\ UNCHANGED <<files, dataset, loads>>

\* the user reloads the page or presses rerun
Refresh == StartRun(session)

\* the user picks another customer; a widget whose seed changes starts over
ChooseCustomer ==
    /\ "Select a customer" \in rendered
    /\ \E c \in 1..Len(dataset) :
         /\ c # session.customer
         /\ LET old == dataset[session.customer]
                new == dataset[c]
            IN  StartRun([customer |-> c,
                       location |-> IF LocationIndex(new) = LocationIndex(old)
                                    THEN session.location ELSE None,
                       gender |-> IF GenderIndex(new) = GenderIndex(old)
                                  THEN session.gender ELSE None])

\* the user picks one of the options of the Location selectbox
EditLocation ==
    /\ "Location" \in rendered
    /\ \E v \in Range(LocationOptions) :
         /\ Some(v) # session.location
         /\ StartRun([session EXCEPT !.location = Some(v)])

\* the user picks one of the options of the Gender radio
EditGender ==
    /\ "Gender" \in rendered
    /\ \E v \in Range(GenderOptions) :
         /\ Some(v) # session.gender
         /\ StartRun([session EXCEPT !.gender = Some(v)])

Next ==
    \/ LoadNext
    \/ SelectCustomer
    \/ CreateWidgets
    \/ PrepareInputStep
    \/ MakePredictionsStep
    \/ ExplainStep
    \/ EmailStep
    \/ Refresh
    \/ ChooseCustomer
    \/ EditLocation
    \/ EditGender

Spec == Init /\ [][Next]_vars

(***************************************************************************)
(* prepare_input on its own: every argument combination, one call          *)
(***************************************************************************)
EncodeLocations == {"France", "Germany", "Spain", "Italy", ""}
EncodeGenders == {"Male", "Female", "Other", "male"}

EncodeArguments ==
    [credit_score : {650}, location : EncodeLocations, gender : EncodeGenders,
     age : {40}, tenure : {3}, balance : {0, 50000}, num_products : {2},
     has_credit_card : BOOLEAN, is_active_member : BOOLEAN,
     estimated_salary : {60000}]

InitEncode ==
    /\ files = [i \in ModelIds |-> "valid"]
    /\ dataset = Dataset
    /\ session = [customer |-> 1, location |-> None, gender |-> None]
    /\ runs = 1
    /\ loads = [i \in ModelIds |-> 1]
    /\ pc = "encode"
    /\ registry = [i \in ModelIds |-> "model"]
    /\ loadedThisRun = [i \in ModelIds |-> 1]
    /\ rendered = {}
    /\ selected_customer = Some(Dataset[1])
    /\ \E a \in EncodeArguments : inputs = Some(a)
    /\ input_dict = None
    /\ probabilities = NoProbabilities
    /\ avg_probability = None
    /\ explanation = None
    /\ email = None
    /\ prompts = <<>>
    /\ exc = "none"
    /\ haltedAt = ""
    /\ log = <<>>

NextEncode == PrepareInputStep

SpecEncode == InitEncode /\ [][NextEncode]_vars

(***************************************************************************)
(* Properties                                                              *)
(***************************************************************************)
ListedLocations == {"France", "Germany", "Spain"}
ListedGenders == {"Male", "Female"}

\* the indicator of a dictionary d that a category value names
LocationIndicator(d, v) ==
    CASE v = "France" -> d.Geography_France
      [] v = "Germany" -> d.Geography_Germany
      [] v = "Spain" -> d.Geography_Spain
GenderIndicator(d, v) ==
    CASE v = "Male" -> d.Gender_Male
      [] v = "Female" -> d.Gender_Female

LocationIndicators(d) == <<d.Geography_France, d.Geography_Germany, d.Geography_Spain>>
GenderIndicators(d) == <<d.Gender_Male, d.Gender_Female>>

\* exactly one entry of s is 1 and the others are 0
OneHot(s) == Range(s) \subseteq {0, 1} /\ SumSeq(s) = 1
AllZero(s) == Range(s) = {0}

\* C1: when prepare_input is called with a location among France, Germany,
\* Spain and a gender among Male, Female, the dictionary it returns has
\* exactly one location indicator equal to 1, the one location names, and
\* exactly one gender indicator equal to 1, the one gender names, the others
\* being 0; Germany and Female give (0, 1, 0) and (0, 1).
C1_OneHotForListedValues ==
    (input_dict # None /\ inputs[1].location \in ListedLocations
                       /\ inputs[1].gender \in ListedGenders) =>
        LET d == input_dict[1]
            in == inputs[1]
        IN  /\ OneHot(LocationIndicators(d))
            /\ LocationIndicator(d, in.location) = 1
            /\ OneHot(GenderIndicators(d))
            /\ GenderIndicator(d, in.gender) = 1
            /\ (in.location = "Germany" /\ in.gender = "Female") =>
                   /\ LocationIndicators(d) = <<0, 1, 0>>
                   /\ GenderIndicators(d) = <<0, 1>>

\* C1 witness: prepare_input has returned for location Germany, gender Female
C1_Witness ==
    /\ pc = "predict"
    /\ input_dict # None
    /\ inputs[1].location = "Germany"
    /\ inputs[1].gender = "Female"
    /\ input_dict[1].Geography_Germany = 1
    /\ input_dict[1].Gender_Female = 1

\* the values of a probability map in the key order of lines 86-88
MapValues(m) == [i \in ModelIds |-> m[ModelNames[i]]]

\* C2: whenever make_predictions has built its probability map, the map has
\* exactly the entries XGBoost, Random Forest and K-Nearest Neighbors, the
\* value returned is the unweighted arithmetic mean of the three values and
\* lies in [0, 1]; for the values 0.2, 0.5, 0.8 it is 0.5.
C2_AggregateIsMean ==
    (probabilities # NoProbabilities) =>
        /\ DOMAIN probabilities = {"XGBoost", "Random Forest", "K-Nearest Neighbors"}
        /\ avg_probability # None
        /\ LET a == avg_probability[1]
               v == MapValues(probabilities)
           IN  /\ a.den > 0
               /\ 3 * a.num = (v[1] + v[2] + v[3]) * a.den
               /\ 0 <= a.num /\ a.num <= Scale * a.den
               /\ (v = <<2, 5, 8>>) => a.num = 5 * a.den

\* C2 witness: the three models returned 0.2, 0.5, 0.8 and the mean is 0.5
C2_Witness ==
    /\ probabilities # NoProbabilities
    /\ MapValues(probabilities) = <<2, 5, 8>>
    /\ avg_probability = Some([num |-> 15, den |-> 3])

\* the load_model call on file i has been executed in this run
Loaded(i) == loadedThisRun[i] >= 1
\* the load_model call on file i let an exception out
LoadHalted(i) == pc = "halted" /\ haltedAt = ModelFiles[i]

\* C3: load_model on a path with no file shows a not-found message, binds
\* None and raises nothing: the script goes on to the next load and the
\* rest of start-up.
C3_MissingFileReported ==
    \A i \in ModelIds :
        (files[i] = "missing" /\ Loaded(i)) =>
            /\ registry[i] = "None"
            /\ ("error: not found " \o ModelFiles[i]) \in rendered
            /\ ~LoadHalted(i)
            /\ exc \notin {"FileNotFoundError"}

\* C3 witness: the first artifact is missing, all three loads have run and
\* the script has moved on past them
C3_Witness ==
    /\ files[1] = "missing"
    /\ registry[1] = "None"
    /\ \A i \in ModelIds : Loaded(i)
    /\ pc = "select"

\* C4: load_model on an existing file that does not deserialize, a truncated
\* or empty file included, is handled like a missing file: the failure is
\* shown, None is bound and no exception leaves load_model.
C4_CorruptFileReported ==
    \A i \in ModelIds :
        (files[i] \in {"truncated", "empty"} /\ Loaded(i)) =>
            /\ registry[i] = "None"
            /\ ("error: corrupted " \o ModelFiles[i]) \in rendered
            /\ ~LoadHalted(i)

\* C5: when prepare_input is called with a location outside France, Germany,
\* Spain, it returns a dictionary whose three location indicators are 0, and
\* with a gender outside Male, Female one whose two gender indicators are 0;
\* the call raises nothing.
C5_UnlistedValueAllZero ==
    /\ exc = "none"
    /\ pc \in {"encode", "predict"}
    /\ pc = "predict" => input_dict # None
    /\ input_dict # None =>
        LET d == input_dict[1]
            in == inputs[1]
        IN  /\ in.location \notin ListedLocations => AllZero(LocationIndicators(d))
            /\ in.gender \notin ListedGenders => AllZero(GenderIndicators(d))

\* C5 witness: prepare_input has returned for location Italy, gender Other
C5_Witness ==
    /\ pc = "predict"
    /\ input_dict # None
    /\ inputs[1].location = "Italy"
    /\ inputs[1].gender = "Other"
    /\ AllZero(LocationIndicators(input_dict[1]))
    /\ AllZero(GenderIndicators(input_dict[1]))

\* C6 as stated: each artifact is loaded once in the process's life; an
\* execution after a widget edit calls load_model no more.
C6_LoadedOncePerProcess ==
    \A i \in ModelIds : loads[i] <= 1

\* the three load statements of this execution are behind it
PastLoads ==
    /\ pc # "load"
    /\ \A i \in ModelIds : ~LoadHalted(i)

\* C6 amended: every execution of the script calls load_model again, at
\* most once for each artifact, and exactly once for each artifact in an
\* execution that gets past its load statements; with r executions started
\* an artifact has been loaded up to r times, r times when this execution
\* is past its loads, and the models a prediction uses are the ones this
\* execution loaded.
C6_LoadedOncePerRun ==
    /\ \A i \in ModelIds : loadedThisRun[i] <= 1 /\ loads[i] <= runs
    /\ PastLoads =>
        \A i \in ModelIds :
            /\ loadedThisRun[i] = 1
            /\ loads[i] = runs
            /\ registry[i] # "unbound"

\* C6 witness: the second execution has predicted with models it loaded
C6_Witness ==
    /\ runs = 2
    /\ pc = "explain"
    /\ \A i \in ModelIds : loads[i] = 2 /\ loadedThisRun[i] = 1

ResultElements == PredictionElements \cup ExplanationElements \cup EmailElements

\* C7 as stated: an execution in which a stage fails displays no result.
C7_NoPartialResult ==
    (pc = "halted") => (rendered \cap ResultElements = {})

\* C7 amended: an execution in which a stage fails displays what the stages
\* before the failing one rendered and nothing of the failing stage or a
\* later one: nothing when a model invocation (or anything before it)
\* fails, the probabilities, the average and the two charts when the
\* explanation call fails, those and the explanation when the email call
\* fails.
C7_EarlierStagesStayRendered ==
    (pc = "halted") =>
        rendered \cap ResultElements =
            CASE haltedAt = "explain_prediction" -> PredictionElements
              [] haltedAt = "generate_email" ->
                   PredictionElements \cup ExplanationElements
              [] OTHER -> {}

\* C7 witness: the explanation call failed with the prediction on the page
C7_Witness ==
    /\ pc = "halted"
    /\ haltedAt = "explain_prediction"
    /\ PredictionElements \subseteq rendered
    /\ rendered \cap ExplanationElements = {}

\* the first global bound to None, in the order XGBoost, Random Forest, KNN
FirstNone ==
    CHOOSE i \in ModelIds :
        registry[i] = "None" /\ \A j \in 1..(i - 1) : registry[j] # "None"

\* C8: in an execution where a model failed to load (its global is None),
\* make_predictions fails at the first such model in the order XGBoost,
\* Random Forest, K-Nearest Neighbors; no probability map and no aggregate
\* exist, and neither remote call is made.  The files do not change, so this
\* is so in every execution.
C8_FirstMissingModelFails ==
    (\E i \in ModelIds : registry[i] = "None") =>
        /\ probabilities = NoProbabilities
        /\ avg_probability = None
        /\ prompts = <<>>
        /\ Range(log) \cap {"explain", "email"} = {}
        /\ pc \notin {"explain", "email"}
        /\ pc = "done" => selected_customer = None
        /\ ("aggregate" \in Range(log)) =>
               /\ pc = "halted"
               /\ exc = "AttributeError"
               /\ haltedAt = ModelNames[FirstNone]

\* C8 witness: in the second execution make_predictions got past XGBoost and
\* failed at Random Forest
C8_Witness ==
    /\ runs = 2
    /\ registry = <<"model", "None", "None">>
    /\ pc = "halted"
    /\ haltedAt = "Random Forest"
    /\ log = <<"encode", "aggregate">>

Stages == <<"encode", "aggregate", "explain", "email">>

\* C9: the stages of an execution occur in the order encode, aggregate,
\* explanation call, email call; each remote call is issued at most once;
\* the email call is issued only after the explanation call returned and
\* carries exactly the text it returned; when the explanation call fails
\* the email call is not issued.
C9_StagesInOrder ==
    /\ Len(log) <= Len(Stages)
    /\ log = SubSeq(Stages, 1, Len(log))
    /\ Len(prompts) = Cardinality(Range(log) \cap {"explain", "email"})
    /\ Len(prompts) >= 1 => prompts[1].call = "explain_prediction"
    /\ Len(prompts) = 2 =>
           /\ prompts[2].call = "generate_email"
           /\ explanation # None
           /\ prompts[2].explanation = explanation
    /\ (pc = "halted" /\ haltedAt = "explain_prediction") =>
           /\ Len(prompts) = 1
           /\ explanation = None

\* C9 witness: an execution ran to its end and the email call carried the
\* explanation the first call returned
C9_Witness ==
    /\ pc = "done"
    /\ log = Stages
    /\ explanation = Some("at risk")
    /\ Len(prompts) = 2
    /\ prompts[2].explanation = Some("at risk")

====
